---- MODULE Spec2Model ----
(***************************************************************************)
(* Model of msgraph_mta.msgmta: one invocation of main().                  *)
(*                                                                         *)
(* main reads one RFC 2822 message, loads the sender profile, requests an  *)
(* OAuth2 token, parses the message, merges the command line recipients    *)
(* and subject into the parsed envelope, refuses an envelope without "to"  *)
(* recipients and posts the envelope to the Graph sendMail endpoint.       *)
(*                                                                         *)
(* Texts that the program transforms are sequences: an address is a        *)
(* sequence of one-character strings (strip removes blanks at both ends),  *)
(* a payload is a sequence of bytes and a decoded text a sequence of code  *)
(* points.  The debug capture of main is modelled by the set of files it   *)
(* has written; the assert of line 101 is modelled as active (the          *)
(* interpreter is not run with -O).                                        *)
(***************************************************************************)
EXTENDS Integers, Sequences, FiniteSets, TLC

VARIABLES raw_email, options, pc, sender, token, parsed, net, posted,
          status, failure, exit_status, debug_files

vars == <<raw_email, options, pc, sender, token, parsed, net, posted,
          status, failure, exit_status, debug_files>>

----------------------------------------------------------------------------
(* Bounds of the input space *)

\* most To headers of a message, and most recipients on the command line
MaxRcpt == 2
\* most Cc headers, and most Bcc headers, of a message
MaxCopy == 1
\* most parts of the outer multipart container
MaxParts == 2
\* most parts of a nested multipart container
MaxInner == 1

----------------------------------------------------------------------------
(* Process exit statuses *)

\* main returns normally: the interpreter exits with 0
ExitSuccess == 0
\* an exception nobody catches: the interpreter prints it and exits with 1
ExitUncaught == 1
\* sys.exit(1) after "No recipients found in email headers"
ExitNoRecipients == 1

----------------------------------------------------------------------------
(* Sequences of bounded length *)

SeqsUpTo(S, n) == UNION {[1..k -> S] : k \in 0..n}

SeqsFromTo(S, lo, n) == UNION {[1..k -> S] : k \in lo..n}

----------------------------------------------------------------------------
(* fmt_recipients: str.strip() on every address, order kept *)

IsSpace(c) == c \in {" ", "\t", "\n"}

RECURSIVE LStrip(_)
LStrip(s) ==
    IF s = <<>> THEN <<>>
    ELSE IF IsSpace(Head(s)) THEN LStrip(Tail(s))
    ELSE s

RECURSIVE RStrip(_)
RStrip(s) ==
    IF s = <<>> THEN <<>>
    ELSE IF IsSpace(s[Len(s)]) THEN RStrip(SubSeq(s, 1, Len(s) - 1))
    ELSE s

Strip(s) == RStrip(LStrip(s))

FmtRecipients(recipients) ==
    [i \in 1..Len(recipients) |->
        [emailAddress |-> [address |-> Strip(recipients[i])]]]

----------------------------------------------------------------------------
(* MIME trees.  A part is a record; is_multipart() is the field multipart, *)
(* parts the list payload of a container, payload the bytes of a leaf      *)
(* after its transfer encoding was undone.                                 *)

NoCharset == "None"

Leaf(ctype, charset, payload) ==
    [ctype |-> ctype, charset |-> charset, payload |-> payload,
     multipart |-> FALSE, parts |-> <<>>]

Multi(parts) ==
    [ctype |-> "multipart/mixed", charset |-> NoCharset, payload |-> <<>>,
     multipart |-> TRUE, parts |-> parts]

\* get_content_charset("utf-8"): the declared charset, else the default
GetContentCharset(part) ==
    IF part.charset = NoCharset THEN "utf-8" ELSE part.charset

IsCont(b) == 128 <= b /\ b <= 191

\* bytes.decode("utf-8") for one and two byte sequences; a lead byte of a
\* longer sequence that the payload does not complete is a decoding error
RECURSIVE DecodeUtf8(_)
DecodeUtf8(bytes) ==
    IF bytes = <<>> THEN [ok |-> TRUE, text |-> <<>>]
    ELSE LET b == Head(bytes) IN
         IF b < 128
         THEN LET rest == DecodeUtf8(Tail(bytes)) IN
              [ok |-> rest.ok, text |-> IF rest.ok THEN <<b>> \o rest.text ELSE <<>>]
         ELSE IF 194 <= b /\ b <= 223 /\ Len(bytes) >= 2 /\ IsCont(bytes[2])
         THEN LET rest == DecodeUtf8(Tail(Tail(bytes))) IN
              [ok |-> rest.ok,
               text |-> IF rest.ok
                        THEN <<(b - 192) * 64 + (bytes[2] - 128)>> \o rest.text
                        ELSE <<>>]
         ELSE [ok |-> FALSE, text |-> <<>>]

\* bytes.decode(charset): latin-1 maps every byte to its code point, an
\* unknown charset raises LookupError
Decode(bytes, charset) ==
    IF charset = "utf-8" THEN DecodeUtf8(bytes)
    ELSE IF charset = "latin-1" THEN [ok |-> TRUE, text |-> bytes]
    ELSE [ok |-> FALSE, text |-> <<>>]

RECURSIVE Concat(_)
Concat(ss) == IF ss = <<>> THEN <<>> ELSE Head(ss) \o Concat(Tail(ss))

\* a walk that lists the subparts of a container before their own subparts
RECURSIVE Below(_)
Below(part) ==
    IF part.multipart
    THEN part.parts \o Concat([i \in 1..Len(part.parts) |-> Below(part.parts[i])])
    ELSE <<>>

WalkLevelOrder(part) == <<part>> \o Below(part)

\* Message.walk(): the part itself, then the walk of every subpart in order
RECURSIVE Walk(_)
Walk(part) ==
    IF part.multipart
    THEN <<part>> \o Concat([i \in 1..Len(part.parts) |-> Walk(part.parts[i])])
    ELSE <<part>>

\* the for loop of lines 118-124: the first part whose type is text/plain
\* is decoded and ends the loop; without one content stays ""
RECURSIVE FirstPlainContent(_)
FirstPlainContent(ps) ==
    IF ps = <<>> THEN [ok |-> TRUE, text |-> <<>>]
    ELSE IF Head(ps).ctype = "text/plain"
    THEN Decode(Head(ps).payload, GetContentCharset(Head(ps)))
    ELSE FirstPlainContent(Tail(ps))

\* lines 115-129
ExtractContent(msg) ==
    IF msg.multipart
    THEN FirstPlainContent(Walk(msg))
    ELSE Decode(msg.payload, GetContentCharset(msg))

----------------------------------------------------------------------------
(* The inputs of an invocation *)

\* header values and command line words: one bare address, one with blanks
RawAddrs == {<<"a">>, <<" ", "b", " ">>}

PlainUtf8 == Leaf("text/plain", NoCharset, <<195, 169>>)
PlainLatin1 == Leaf("text/plain", "latin-1", <<195>>)
PlainInvalid == Leaf("text/plain", NoCharset, <<233>>)
Html == Leaf("text/html", NoCharset, <<65>>)

Leaves == {PlainUtf8, PlainLatin1, PlainInvalid, Html}

Inner == {Multi(ps) : ps \in SeqsFromTo(Leaves, 1, MaxInner)}

Trees == {Multi(ps) : ps \in SeqsFromTo(Leaves \cup Inner, 1, MaxParts)}

\* bodies of the pipeline runs: a single body that decodes, one that does
\* not, and a multipart message without any text/plain part
MainBodies == {PlainUtf8, PlainInvalid, Multi(<<Html>>)}

Subjects == {"", "Hi"}

\* argparse: --subject defaults to "no subject" (line 216)
DefaultSubject == "no subject"

\* response.status_code of the sendMail response
Statuses == {199, 200, 202, 299, 300, 399, 400, 599}

NoParsed ==
    [to |-> <<>>, cc |-> <<>>, bcc |-> <<>>, subject |-> "",
     content_type |-> "", content |-> <<>>]

NoData ==
    [subject |-> "", content |-> <<>>, contentType |-> "",
     toRecipients |-> <<>>, ccRecipients |-> <<>>, from |-> "",
     saveToSentItems |-> ""]

----------------------------------------------------------------------------
(* State after the command line and standard input were read (222-231) *)

InitRest ==
    /\ pc = IF options.debug THEN "capture_raw" ELSE "load_config"
    /\ debug_files = {}
    /\ sender = ""
    /\ token = ""
    /\ parsed = NoParsed
    /\ net = <<>>
    /\ posted = NoData
    /\ status = 0
    /\ failure = "none"
    /\ exit_status = <<>>

Init ==
    /\ raw_email \in [to : SeqsUpTo(RawAddrs, MaxRcpt),
                      cc : SeqsUpTo(RawAddrs, MaxCopy),
                      bcc : SeqsUpTo(RawAddrs, MaxCopy),
                      subject : Subjects,
                      body : MainBodies]
    /\ options \in [recipients : SeqsUpTo(RawAddrs, MaxRcpt),
                    subject : {DefaultSubject},
                    debug : BOOLEAN]
    /\ InitRest

\* messages for the body extraction: every tree, few header combinations
InitBody ==
    /\ \E h \in {<< <<>>, <<>>, FALSE >>, << <<<<"a">>>>, <<>>, FALSE >>,
                 << <<<<"a">>>>, <<<<"a">>>>, FALSE >>, << <<<<"a">>>>, <<>>, TRUE >>} :
         /\ raw_email \in
               {[to |-> h[1], cc |-> <<>>, bcc |-> h[2], subject |-> "Hi", body |-> b] :
                  b \in Trees \cup Leaves}
         /\ options = [recipients |-> <<>>, subject |-> DefaultSubject, debug |-> h[3]]
    /\ InitRest

----------------------------------------------------------------------------
(* The steps of main *)

\* an exception that is swallowed: the process ends as after a success
RaiseExitZero(class) ==
    /\ pc' = "exit"
    /\ failure' = class
    /\ exit_status' = <<ExitSuccess>>

\* an exception that nothing catches ends the process
Raise(class) ==
    /\ pc' = "exit"
    /\ failure' = class
    /\ exit_status' = <<ExitUncaught>>

\* lines 232-241: with --debug the raw message is written to a fresh file;
\* a directory or file that cannot be written raises OSError
DebugCaptureRaw ==
    /\ pc = "capture_raw"
    /\ \/ /\ debug_files' = {"raw"}
          /\ pc' = "load_config"
          /\ UNCHANGED <<failure, exit_status>>
       \/ /\ Raise("io")
          /\ UNCHANGED debug_files
    /\ UNCHANGED <<raw_email, options, sender, token, parsed, net, posted, status>>

\* lines 243-245: load_config raises when the file or the profile is missing
LoadConfig ==
    /\ pc = "load_config"
    /\ \/ /\ sender' = "sender"
          /\ pc' = "get_access_token"
          /\ UNCHANGED <<failure, exit_status>>
       \/ /\ Raise("config")
          /\ UNCHANGED sender
    /\ UNCHANGED <<raw_email, options, token, parsed, net, posted, status,
                   debug_files>>

\* acquire_token_for_client returns a dict: with "access_token" on success,
\* with "error" and no "access_token" otherwise
TokenResults ==
    {[keys |-> {"access_token"}, access_token |-> "tok"],
     [keys |-> {"error"}, access_token |-> ""]}

HasAccessTokenAlways(result) == TRUE

\* line 76: "access_token" in result
HasAccessToken(result) == "access_token" \in result.keys

\* line 246 and get_access_token: one token request; a result without
\* "access_token" raises, a transport fault inside the request raises too
GetAccessToken ==
    /\ pc = "get_access_token"
    /\ net' = Append(net, "token")
    /\ \/ \E result \in TokenResults :
            IF HasAccessToken(result)
            THEN /\ token' = result.access_token
                 /\ pc' = "parse"
                 /\ UNCHANGED <<failure, exit_status>>
            ELSE /\ Raise("auth")
                 /\ UNCHANGED token
       \/ /\ Raise("transport")
          /\ UNCHANGED token
    /\ UNCHANGED <<raw_email, options, sender, parsed, posted, status,
                   debug_files>>

BccAllowedAlways(bcc_addrs) == TRUE

\* line 101: assert not bcc_addrs
BccAllowed(bcc_addrs) == bcc_addrs = <<>>

\* line 248 and parse_email_message
ParseEmailMessage ==
    /\ pc = "parse"
    /\ LET to_addrs == raw_email.to
           cc_addrs == raw_email.cc
           bcc_addrs == raw_email.bcc
           content == ExtractContent(raw_email.body)
       IN  IF ~BccAllowed(bcc_addrs)
           THEN Raise("parse") /\ UNCHANGED parsed
           ELSE IF ~content.ok
           THEN Raise("decode") /\ UNCHANGED parsed
           ELSE /\ parsed' = [to |-> FmtRecipients(to_addrs),
                              cc |-> FmtRecipients(cc_addrs),
                              bcc |-> FmtRecipients(bcc_addrs),
                              subject |-> raw_email.subject,
                              content_type |-> "text/plain",
                              content |-> content.text]
                /\ pc' = "merge"
                /\ UNCHANGED <<failure, exit_status>>
    /\ UNCHANGED <<raw_email, options, sender, token, net, posted, status,
                   debug_files>>

MergedToReplace(to, recipients) ==
    IF recipients = <<>> THEN to ELSE FmtRecipients(recipients)

\* lines 256-257: parsed['to'].extend(fmt_recipients(options.recipients))
MergedTo(to, recipients) == to \o FmtRecipients(recipients)

\* lines 256-258
MergeOptions ==
    /\ pc = "merge"
    /\ parsed' = [parsed EXCEPT
                    !.to = MergedTo(parsed.to, options.recipients),
                    !.subject = IF parsed.subject # "" THEN parsed.subject
                                ELSE options.subject]
    /\ pc' = IF options.debug THEN "capture_parsed" ELSE "validate"
    /\ UNCHANGED <<raw_email, options, sender, token, net, posted, status,
                   failure, exit_status, debug_files>>

\* lines 263-267: with --debug the token and the merged envelope are
\* written beside the raw message; either write may raise OSError
DebugCaptureParsed ==
    /\ pc = "capture_parsed"
    /\ \/ /\ debug_files' = debug_files \cup {"tkn", "json"}
          /\ pc' = "validate"
          /\ UNCHANGED <<failure, exit_status>>
       \/ /\ debug_files' = debug_files \cup {"tkn"}
          /\ Raise("io")
       \/ /\ Raise("io")
          /\ UNCHANGED debug_files
    /\ UNCHANGED <<raw_email, options, sender, token, parsed, net, posted, status>>

HasRecipientsAlways(envelope) == TRUE

HasRecipientsToOrCc(envelope) == envelope.to # <<>> \/ envelope.cc # <<>>

\* line 269: not parsed['to']
HasRecipients(envelope) == envelope.to # <<>>

\* lines 269-271
NoRecipientsExit ==
    /\ pc = "validate"
    /\ ~HasRecipients(parsed)
    /\ pc' = "exit"
    /\ failure' = "no_recipients"
    /\ exit_status' = <<ExitNoRecipients>>
    /\ UNCHANGED <<raw_email, options, sender, token, parsed, net, posted, status,
                   debug_files>>

\* requests.Response.ok: raise_for_status() raises for 400 <= status < 600
Ok(code) == ~(400 <= code /\ code < 600)

\* lines 145-159
RequestData(from, envelope) ==
    [subject |-> envelope.subject, content |-> envelope.content,
     contentType |-> "Text", toRecipients |-> envelope.to,
     ccRecipients |-> envelope.cc, from |-> from, saveToSentItems |-> "true"]

\* a failed delivery that is attempted once more
DeliveryFailedRetry ==
    IF Len(net) < 3
    THEN pc' = "validate" /\ UNCHANGED <<failure, exit_status>>
    ELSE Raise("delivery")

\* lines 167-169: raise Exception("Graph sendMail failed ...")
DeliveryFailed == Raise("delivery")

\* line 273 and send_mail: one POST; a transport fault raises, a response
\* that is not ok raises, otherwise main returns
SendMail ==
    /\ pc = "validate"
    /\ HasRecipients(parsed)
    /\ net' = Append(net, "post")
    /\ posted' = RequestData(sender, parsed)
    /\ \/ /\ Raise("transport")
          /\ UNCHANGED status
       \/ \E code \in Statuses :
            /\ status' = code
            /\ IF ~Ok(code)
               THEN DeliveryFailed
               ELSE /\ pc' = "exit"
                    /\ exit_status' = <<ExitSuccess>>
                    /\ UNCHANGED failure
    /\ UNCHANGED <<raw_email, options, sender, token, parsed, debug_files>>

Next ==
    \/ DebugCaptureRaw
    \/ LoadConfig
    \/ GetAccessToken
    \/ ParseEmailMessage
    \/ MergeOptions
    \/ DebugCaptureParsed
    \/ NoRecipientsExit
    \/ SendMail

Spec == Init /\ [][Next]_vars

SpecBody == InitBody /\ [][Next]_vars

----------------------------------------------------------------------------
(* Vocabulary of the properties *)

Terminated == pc = "exit"

Posted == \E i \in DOMAIN net : net[i] = "post"

ExitedNonZero == exit_status # <<>> /\ exit_status[1] # 0

\* the merged recipient list (parsed To, then command line) has no entry
MergedEmpty == raw_email.to = <<>> /\ options.recipients = <<>>

\* a run that has not ended can take a step
Progress == ~Terminated => ENABLED Next

BodyDecodes == ExtractContent(raw_email.body).ok

\* no write of the debug capture has failed
CaptureOk == failure # "io"

----------------------------------------------------------------------------
(* C1 *)

----------------------------------------------------------------------------
(* C2 *)

----------------------------------------------------------------------------
(* C3 *)

\* C3 as stated: without Bcc and with an address in To or in Cc the run
\* never ends at the "No recipients" exit.
C3_ToOrCcPassesCheck ==
    (raw_email.bcc = <<>> /\ (raw_email.to # <<>> \/ raw_email.cc # <<>>))
        => failure # "no_recipients"

\* C3 amended: without Bcc and with a To header or a command line recipient
\* the run never ends at the "No recipients" exit, and reaches send_mail
\* when authentication succeeds, the body decodes and no write of the
\* debug capture fails; Cc addresses do not count: with neither To header
\* nor command line recipient such a run ends at the "No recipients" exit.
C3_ToOrCliPassesCheck ==
    /\ (raw_email.bcc = <<>> /\ ~MergedEmpty) =>
          /\ failure # "no_recipients"
          /\ Progress
          /\ (Terminated /\ token = "tok" /\ BodyDecodes /\ CaptureOk) => Posted
    /\ (raw_email.bcc = <<>> /\ MergedEmpty) =>
          /\ (Terminated /\ token = "tok" /\ BodyDecodes /\ CaptureOk)
                => failure = "no_recipients"

C3_Witness ==
    /\ raw_email.bcc = <<>> /\ raw_email.to # <<>> /\ options.recipients = <<>>
    /\ Terminated /\ Posted

----------------------------------------------------------------------------
(* C4 *)

\* C4: send_mail is invoked only after get_access_token returned a token
\* and parse_email_message returned an envelope; a token result without
\* access_token raises and send_mail is never invoked.
C4_DeliveryAfterAuthAndParse ==
    /\ Posted =>
          /\ token = "tok"
          /\ parsed # NoParsed
          /\ net = <<"token", "post">>
    /\ failure = "auth" =>
          /\ Terminated /\ ExitedNonZero
          /\ token = ""
          /\ ~Posted
          /\ ~ENABLED SendMail

C4_Witness == failure = "auth" /\ ~MergedEmpty /\ raw_email.bcc = <<>>

----------------------------------------------------------------------------
(* C5 *)

\* the failure classes the exit status is meant to tell apart
FailureClasses == {"parse", "auth", "no_recipients", "delivery"}

\* the exit status the program gives a class
ExitStatusOf(class) ==
    IF class = "none" THEN ExitSuccess
    ELSE IF class = "no_recipients" THEN ExitNoRecipients
    ELSE ExitUncaught

----------------------------------------------------------------------------
(* C6 *)

\* C6: at most one token request and at most one POST, in that order; after
\* a failed token request or a refused delivery the process ends without
\* any further network call.
C6_AtMostOneCallEach ==
    /\ net \in {<<>>, <<"token">>, <<"token", "post">>}
    /\ failure \in {"auth", "delivery", "transport"} =>
          Terminated /\ ~ENABLED Next

C6_Witness == failure = "delivery" /\ net = <<"token", "post">> /\ status = 599

----------------------------------------------------------------------------
(* C7 *)

\* C7: send_mail succeeds exactly when the response status is in 200..299;
\* every other status raises the delivery error.
C7_SuccessIffStatus2xx ==
    (Terminated /\ Posted /\ status \in Statuses) =>
        (failure = "none" <=> (200 <= status /\ status <= 299))

----------------------------------------------------------------------------
(* C8 *)

\* C8: the recipient list handed to delivery is the parsed To recipients in
\* their order followed by the formatted command line recipients in their
\* order; nothing is replaced, reordered, removed or deduplicated.
C8_MergedIsParsedThenCli ==
    (pc \in {"capture_parsed", "validate"} \/ (Terminated /\ parsed # NoParsed)) =>
        LET n == Len(raw_email.to)
            m == Len(options.recipients)
        IN  /\ Len(parsed.to) = n + m
            /\ \A i \in 1..n :
                 parsed.to[i] = [emailAddress |-> [address |-> Strip(raw_email.to[i])]]
            /\ \A j \in 1..m :
                 parsed.to[n + j] =
                     [emailAddress |-> [address |-> Strip(options.recipients[j])]]
            /\ Posted => posted.toRecipients = parsed.to

C8_Witness ==
    /\ Posted
    /\ raw_email.to = << <<"a">> >>
    /\ options.recipients = << <<" ", "b", " ">>, <<"a">> >>
    /\ posted.toRecipients =
         << [emailAddress |-> [address |-> <<"a">>]],
            [emailAddress |-> [address |-> <<"b">>]],
            [emailAddress |-> [address |-> <<"a">>]] >>

----------------------------------------------------------------------------
(* C9 *)

\* C9: whenever send_mail is invoked, the envelope passed to it has a
\* non-empty "to" list and an empty "bcc" list.
C9_EnvelopeAtDelivery ==
    Posted =>
        /\ parsed.to # <<>>
        /\ parsed.bcc = <<>>
        /\ raw_email.bcc = <<>>
        /\ posted.toRecipients # <<>>

C9_Witness ==
    Posted /\ raw_email.to = <<>> /\ raw_email.cc # <<>> /\ Len(parsed.to) = 2

----------------------------------------------------------------------------
(* C10 *)

RECURSIVE PartAt(_, _)
PartAt(part, path) ==
    IF path = <<>> THEN part ELSE PartAt(part.parts[Head(path)], Tail(path))

RECURSIVE PathsOf(_)
PathsOf(part) ==
    {<<>>} \cup
    (IF part.multipart
     THEN UNION {{<<i>> \o p : p \in PathsOf(part.parts[i])} :
                   i \in 1..Len(part.parts)}
     ELSE {})

\* p is met before q in a depth-first, parent-first traversal
Before(p, q) ==
    /\ p # q
    /\ \/ Len(p) < Len(q) /\ SubSeq(q, 1, Len(p)) = p
       \/ \E k \in 1..Len(p) :
            /\ k <= Len(q)
            /\ SubSeq(p, 1, k - 1) = SubSeq(q, 1, k - 1)
            /\ p[k] < q[k]

PlainPaths(msg) == {p \in PathsOf(msg) : PartAt(msg, p).ctype = "text/plain"}

\* C10: for a multipart message the content is the decoded text of the
\* first text/plain part of the depth-first, parent-first traversal,
\* whatever precedes or follows it; without a text/plain part the content
\* is the empty text and the extraction raises nothing.
C10_FirstPlainPartDepthFirst ==
    LET msg == raw_email.body
        plain == PlainPaths(msg)
    IN  msg.multipart =>
          /\ parsed # NoParsed =>
                IF plain = {} THEN parsed.content = <<>>
                ELSE \E p \in plain :
                       /\ \A q \in plain \ {p} : Before(p, q)
                       /\ Decode(PartAt(msg, p).payload,
                                 GetContentCharset(PartAt(msg, p)))
                            = [ok |-> TRUE, text |-> parsed.content]
                       /\ PartAt(msg, p) = PlainUtf8 => parsed.content = <<233>>
                       /\ PartAt(msg, p) = PlainLatin1 => parsed.content = <<195>>
          /\ plain = {} =>
                /\ failure # "decode"
                /\ (Terminated /\ token = "tok" /\ raw_email.bcc = <<>>)
                      => parsed # NoParsed

C10_Witness ==
    /\ raw_email.body = Multi(<<Multi(<<PlainLatin1>>), PlainUtf8>>)
    /\ parsed.content = <<195>>
    /\ Terminated

====
